---------------------------- MODULE Spec2Model ----------------------------
(***************************************************************************)
(* Model of the "Analisador de Primeiras Palavras" Streamlit tool.         *)
(*                                                                         *)
(*   src/main.py  the advanced variant: extract_first_word with ignore     *)
(*                phrases, find_matches, the session script main()         *)
(*   src/app.py   the simple variant: extract_first_word,                  *)
(*                analyze_first_words, the session script main()           *)
(*                                                                         *)
(* A Python str is a sequence of one-character strings.  A cell of a       *)
(* DataFrame column and the value a function returns are records           *)
(* [kind, s]: kind "str" carries the characters in s; the other kinds are  *)
(* None, NaN, a number, and the exception a call ended with.               *)
(***************************************************************************)
EXTENDS Naturals, Integers, Sequences, FiniteSets, TLC

(***************************************************************************)
(* Characters                                                              *)
(***************************************************************************)
UpperChars ==
  <<"A", "B", "C", "D", "E", "F", "G", "H", "I", "J", "K", "L", "M", "N",
    "O", "P", "Q", "R", "S", "T", "U", "V", "W", "X", "Y", "Z", "Á", "É",
    "Í", "Ó", "Ú", "Ã", "Õ", "Â", "Ê", "Î", "Ô", "Û", "À", "È", "Ì", "Ò",
    "Ù", "Ç">>

LowerChars ==
  <<"a", "b", "c", "d", "e", "f", "g", "h", "i", "j", "k", "l", "m", "n",
    "o", "p", "q", "r", "s", "t", "u", "v", "w", "x", "y", "z", "á", "é",
    "í", "ó", "ú", "ã", "õ", "â", "ê", "î", "ô", "û", "à", "è", "ì", "ò",
    "ù", "ç">>

AsciiUpper == {UpperChars[i] : i \in 1..26}

AsciiLower == {LowerChars[i] : i \in 1..26}

AccentedUpper == {UpperChars[i] : i \in 27..Len(UpperChars)}

AccentedLower == {LowerChars[i] : i \in 27..Len(LowerChars)}

Digits == {"0", "1", "2", "3", "4", "5", "6", "7", "8", "9"}

\* the characters str.strip() and str.split() treat as whitespace
Whitespace == {" ", "\t", "\n"}

IsSpace(c) == c \in Whitespace

\* str.lower() on one character
LowerOf ==
  [c \in {UpperChars[i] : i \in DOMAIN UpperChars} |->
     LowerChars[CHOOSE i \in DOMAIN UpperChars : UpperChars[i] = c]]

Lower(c) == IF c \in DOMAIN LowerOf THEN LowerOf[c] ELSE c

\* the class [a-zA-ZÀ-ÿ0-9] of main.py's re.sub
AlnumMainChars ==
  AsciiLower \cup AsciiUpper \cup AccentedUpper \cup AccentedLower \cup Digits

IsAlnumMain(c) == c \in AlnumMainChars

\* the class [a-zA-Z0-9áéíóúÁÉÍÓÚãõâêîôûàèìòùç] of app.py's re.sub
AlnumAppChars ==
  AsciiLower \cup AsciiUpper \cup Digits \cup AccentedLower
    \cup {"Á", "É", "Í", "Ó", "Ú"}

IsAlnumApp(c) == c \in AlnumAppChars

\* \w of the re module on str patterns: letters, digits and the underscore
WordChars ==
  AsciiLower \cup AsciiUpper \cup AccentedUpper \cup AccentedLower
    \cup Digits \cup {"_"}

IsWordChar(c) == c \in WordChars

(***************************************************************************)
(* Strings                                                                 *)
(***************************************************************************)
Drop(s, n) == SubSeq(s, n + 1, Len(s))

LowerStr(s) == [i \in 1..Len(s) |-> Lower(s[i])]

RECURSIVE LStrip(_)
LStrip(s) == IF s # <<>> /\ IsSpace(Head(s)) THEN LStrip(Tail(s)) ELSE s

RECURSIVE RStrip(_)
RStrip(s) ==
  IF s # <<>> /\ IsSpace(s[Len(s)]) THEN RStrip(SubSeq(s, 1, Len(s) - 1)) ELSE s

\* str.strip()
Strip(s) == RStrip(LStrip(s))

\* str.startswith
StartsWith(s, p) == Len(p) <= Len(s) /\ SubSeq(s, 1, Len(p)) = p

\* the length of the longest prefix of s made of characters outside cs
RECURSIVE SpanLenNot(_, _)
SpanLenNot(s, cs) ==
  IF s # <<>> /\ Head(s) \notin cs THEN 1 + SpanLenNot(Tail(s), cs) ELSE 0

\* str.split(): the whitespace-delimited tokens, none of them empty
RECURSIVE Split(_)
Split(s) ==
  LET t == LStrip(s)
      n == SpanLenNot(t, Whitespace)
  IN IF t = <<>> THEN <<>> ELSE <<SubSeq(t, 1, n)>> \o Split(Drop(t, n))

\* str.split(sep) for a one-character sep: cut at every sep, empty pieces kept
RECURSIVE SplitOn(_, _)
SplitOn(s, sep) ==
  LET n == SpanLenNot(s, {sep})
  IN IF n = Len(s) THEN <<s>>
     ELSE <<SubSeq(s, 1, n)>> \o SplitOn(Drop(s, n + 1), sep)

(***************************************************************************)
(* Values                                                                  *)
(***************************************************************************)
Str(s) == [kind |-> "str", s |-> s]

None == [kind |-> "None", s |-> <<>>]

NaN == [kind |-> "nan", s |-> <<>>]

\* a numeric cell; s is what str() makes of it
Number == [kind |-> "int", s |-> <<"4", "2">>]

\* str(value)
PyStr(v) == IF v.kind = "nan" THEN <<"n", "a", "n">> ELSE v.s

Raise(e) == [kind |-> e, s |-> <<>>]

IsStr(v) == v.kind = "str"

\* pd.isna
IsNa(v) == v.kind \in {"None", "nan"}

IsRaised(v) == v.kind \in {"IndexError", "RecursionError", "AttributeError"}

\* Palavras para ignorar (inicial), the same set in both variants
DEFAULT_STOPWORDS ==
  {
    <<"d", "e">>, <<"p", "a", "r", "a">>, <<"c", "o", "m">>,
    <<"s", "e", "m">>, <<"e", "m">>, <<"p", "o", "r">>,
    <<"q", "u", "e">>, <<"o", "s">>, <<"a", "s">>,
    <<"u", "m">>, <<"u", "m", "a">>, <<"a", "o">>,
    <<"a", "o", "s">>, <<"d", "o">>, <<"d", "a">>,
    <<"d", "o", "s">>, <<"d", "a", "s">>, <<"n", "o">>,
    <<"n", "a">>, <<"n", "o", "s">>, <<"n", "a", "s">>,
    <<"p", "e", "l", "o">>, <<"p", "e", "l", "a">>, <<"p", "e", "l", "o", "s">>,
    <<"p", "e", "l", "a", "s">>, <<"e", "s", "t", "e">>, <<"e", "s", "t", "a">>,
    <<"e", "s", "t", "e", "s">>, <<"e", "s", "t", "a", "s">>, <<"e", "s", "s", "e">>,
    <<"e", "s", "s", "a">>, <<"e", "s", "s", "e", "s">>, <<"e", "s", "s", "a", "s">>,
    <<"a", "q", "u", "e", "l", "e">>, <<"a", "q", "u", "e", "l", "a">>,
    <<"a", "q", "u", "e", "l", "e", "s">>, <<"a", "q", "u", "e", "l", "a", "s">>,
    <<"o", "u">>, <<"e">>, <<"m", "a", "s">>, <<"p", "o", "r", "é", "m">>,
    <<"e", "n", "t", "r", "e", "t", "a", "n", "t", "o">>,
    <<"c", "o", "n", "t", "u", "d", "o">>, <<"q", "u", "a", "n", "d", "o">>,
    <<"e", "n", "q", "u", "a", "n", "t", "o">>, <<"c", "o", "m", "o">>,
    <<"p", "o", "r", "q", "u", "e">>, <<"p", "o", "i", "s">>,
    <<"a", "s", "s", "i", "m">>, <<"e", "n", "t", "ã", "o">>, <<"l", "o", "g", "o">>,
    <<"p", "o", "r", "t", "a", "n", "t", "o">>, <<"d", "e", "s", "s", "e">>,
    <<"d", "e", "s", "s", "a">>, <<"d", "e", "s", "t", "e", "s">>,
    <<"d", "e", "s", "t", "a", "s">>, <<"d", "e", "s", "t", "e">>,
    <<"i", "s", "s", "o">>, <<"i", "s", "t", "o">>, <<"a", "q", "u", "i", "l", "o">>
  }

(***************************************************************************)
(* main.py: extract_first_word                                             *)
(***************************************************************************)
\* re.sub(r'^[^a-zA-ZÀ-ÿ0-9]+', '', text)
ReSubMain(s) == Drop(s, SpanLenNot(s, AlnumMainChars))

\* the phrases of ignore_phrases that text.lower() starts with
MatchingPhrases(text, ignore_phrases) ==
  {p \in ignore_phrases : StartsWith(LowerStr(text), LowerStr(p))}

\* The loop over sorted(ignore_phrases, key=len, reverse=True) stops at the
\* first phrase in that order the text starts with: a longest one.  Phrases of
\* one length keep the set's iteration order, but text[len(phrase):] reads
\* only the length, so every such order removes the same characters.
MatchedLen(text, ignore_phrases) ==
  CHOOSE n \in {Len(p) : p \in MatchingPhrases(text, ignore_phrases)} :
    \A p \in MatchingPhrases(text, ignore_phrases) : Len(p) <= n

\* stopwords and first_word.lower() in stopwords (None and set() are both falsy)
InStopwords(first_word, stopwords) == LowerStr(first_word) \in stopwords

\* TooShort with the limit off by one
TooShortBelowTwo(first_word) == Len(first_word) < 2

\* len(first_word) < 3
TooShort(first_word) == Len(first_word) < 3

\* FirstWordOf with the word lowercased before it is returned
FirstWordOfLowered(text, stopwords) ==
  LET tokens == Split(ReSubMain(text))
  IN IF tokens = <<>> THEN Raise("IndexError")
     ELSE IF InStopwords(tokens[1], stopwords) THEN None
     ELSE IF TooShort(tokens[1]) THEN None
     ELSE Str(LowerStr(tokens[1]))

\* lines 165-172: the token of a text no ignore phrase applies to
FirstWordOf(text, stopwords) ==
  LET tokens == Split(ReSubMain(text))
  IN IF tokens = <<>> THEN Raise("IndexError")
     ELSE IF InStopwords(tokens[1], stopwords) THEN None
     ELSE IF TooShort(tokens[1]) THEN None
     ELSE Str(tokens[1])

\* A recursive call on the very text it was called with repeats for ever:
\* Python ends it with RecursionError.
RECURSIVE extract_first_word(_, _, _)
extract_first_word(text, stopwords, ignore_phrases) ==
  IF IsNa(text) \/ ~IsStr(text) THEN None
  ELSE LET t == Strip(text.s)
       IN IF t = <<>> THEN None
          ELSE IF MatchingPhrases(t, ignore_phrases) # {}
            THEN LET remaining_text == Strip(Drop(t, MatchedLen(t, ignore_phrases)))
                 IN IF remaining_text = <<>> THEN None
                    ELSE IF remaining_text = t THEN Raise("RecursionError")
                    ELSE extract_first_word(Str(remaining_text), stopwords,
                                            ignore_phrases)
            ELSE FirstWordOf(t, stopwords)

(***************************************************************************)
(* main.py: extract_first_word with the iteration order of the set of      *)
(* ignore phrases written out.  A Python set hands its elements to         *)
(* sorted() in an order the program does not control; `iteration` is the   *)
(* set in that order.                                                      *)
(***************************************************************************)
\* the orders a set can be iterated in
IterationOrders(set) ==
  {iteration \in [1..Cardinality(set) -> set] :
     \A i, j \in DOMAIN iteration : iteration[i] = iteration[j] => i = j}

\* one step of the stable sort: the phrase goes behind every phrase that is
\* at least as long
RECURSIVE InsertByLen(_, _)
InsertByLen(phrase, sorted) ==
  IF sorted = <<>> THEN <<phrase>>
  ELSE IF Len(Head(sorted)) >= Len(phrase)
    THEN <<Head(sorted)>> \o InsertByLen(phrase, Tail(sorted))
    ELSE <<phrase>> \o sorted

\* sorted_phrases with the sort left out: the phrases in iteration order
UnsortedPhrases(iteration) == iteration

\* line 157: sorted(ignore_phrases, key=len, reverse=True); the sort is
\* stable, phrases of one length keep their iteration order
RECURSIVE sorted_phrases(_)
sorted_phrases(iteration) ==
  IF iteration = <<>> THEN <<>>
  ELSE InsertByLen(iteration[Len(iteration)],
                   sorted_phrases(SubSeq(iteration, 1, Len(iteration) - 1)))

\* lines 158-159: the first phrase of the loop the text starts with
RECURSIVE FirstMatchingPhrase(_, _)
FirstMatchingPhrase(text, phrases) ==
  IF phrases = <<>> THEN [found |-> FALSE, phrase |-> <<>>]
  ELSE IF StartsWith(LowerStr(text), LowerStr(Head(phrases)))
    THEN [found |-> TRUE, phrase |-> Head(phrases)]
    ELSE FirstMatchingPhrase(text, Tail(phrases))

\* lines 147-172
RECURSIVE extract_first_word_in_order(_, _, _)
extract_first_word_in_order(text, stopwords, iteration) ==
  IF IsNa(text) \/ ~IsStr(text) THEN None
  ELSE LET t == Strip(text.s)
           match == FirstMatchingPhrase(t, sorted_phrases(iteration))
       IN IF t = <<>> THEN None
          ELSE IF match.found
            THEN LET remaining_text == Strip(Drop(t, Len(match.phrase)))
                 IN IF remaining_text = <<>> THEN None
                    ELSE IF remaining_text = t THEN Raise("RecursionError")
                    ELSE extract_first_word_in_order(Str(remaining_text),
                                                     stopwords, iteration)
            ELSE FirstWordOf(t, stopwords)

\* lines 156-163 as the list of the stripping steps the call and its
\* recursive calls make: the stripped text of the call, the phrase the loop
\* stops at, and remaining_text
RECURSIVE StrippingSteps(_, _)
StrippingSteps(t, iteration) ==
  LET s == Strip(t)
      match == FirstMatchingPhrase(s, sorted_phrases(iteration))
      remaining_text == Strip(Drop(s, Len(match.phrase)))
  IN IF s = <<>> \/ ~match.found THEN <<>>
     ELSE <<[stripped |-> s, phrase |-> match.phrase,
             remaining_text |-> remaining_text]>>
          \o (IF remaining_text = <<>> \/ remaining_text = s THEN <<>>
              ELSE StrippingSteps(remaining_text, iteration))

(***************************************************************************)
(* app.py: extract_first_word and the filter of analyze_first_words        *)
(***************************************************************************)
\* re.sub(r'^[^a-zA-Z0-9áéíóúÁÉÍÓÚãõâêîôûàèìòùç]+', '', text)
ReSubApp(s) == Drop(s, SpanLenNot(s, AlnumAppChars))

app_extract_first_word(text) ==
  IF IsNa(text) THEN None
  ELSE LET t == Strip(PyStr(text))
       IN IF t = <<>> THEN None
          ELSE LET first_word == SplitOn(ReSubApp(t), " ")[1]
               IN IF first_word # <<>> THEN Str(first_word) ELSE None

\* analyze_first_words, one row: the word appended to first_words, or None
\* when the row adds nothing
app_row_word(text, stopwords) ==
  LET word == app_extract_first_word(text)
  IN IF IsStr(word) /\ LowerStr(word.s) \notin stopwords /\ Len(word.s) >= 3
       THEN Str(LowerStr(word.s))
       ELSE None

(***************************************************************************)
(* main.py: find_matches                                                   *)
(***************************************************************************)
\* the characters in code point order, the order sorted() compares str by
CodePoints ==
  <<"\t", "\n", " ", "-", "/", "0", "1", "2", "3", "4", "5", "6", "7", "8",
    "9", "A", "B", "C", "D", "E", "F", "G", "H", "I", "J", "K", "L", "M",
    "N", "O", "P", "Q", "R", "S", "T", "U", "V", "W", "X", "Y", "Z", "_",
    "a", "b", "c", "d", "e", "f", "g", "h", "i", "j", "k", "l", "m", "n",
    "o", "p", "q", "r", "s", "t", "u", "v", "w", "x", "y", "z", "À", "Á",
    "Â", "Ã", "Ç", "È", "É", "Ê", "Ì", "Í", "Î", "Ò", "Ó", "Ô", "Õ", "Ù",
    "Ú", "Û", "à", "á", "â", "ã", "ç", "è", "é", "ê", "ì", "í", "î", "ò",
    "ó", "ô", "õ", "ù", "ú", "û">>

OrdOf ==
  [c \in {CodePoints[i] : i \in DOMAIN CodePoints} |->
     CHOOSE i \in DOMAIN CodePoints : CodePoints[i] = c]

Ord(c) == OrdOf[c]

\* a < b on two str
RECURSIVE StrLess(_, _)
StrLess(a, b) ==
  IF b = <<>> THEN FALSE
  ELSE IF a = <<>> THEN TRUE
  ELSE IF Head(a) = Head(b) THEN StrLess(Tail(a), Tail(b))
  ELSE Ord(Head(a)) < Ord(Head(b))

Range(f) == {f[i] : i \in DOMAIN f}

\* sorted(set(v))
RECURSIVE Sorted(_)
Sorted(S) ==
  IF S = {} THEN <<>>
  ELSE LET least == CHOOSE x \in S : \A y \in S \ {x} : StrLess(x, y)
       IN <<least>> \o Sorted(S \ {least})

\* sep.join(parts)
RECURSIVE Join(_, _)
Join(sep, parts) ==
  IF parts = <<>> THEN <<>>
  ELSE IF Len(parts) = 1 THEN parts[1]
  ELSE parts[1] \o sep \o Join(sep, Tail(parts))

\* \b at offset k of s: a word character on exactly one side
WordBoundary(s, k) ==
  (k >= 1 /\ IsWordChar(s[k])) # (k < Len(s) /\ IsWordChar(s[k + 1]))

\* re.search(rf'\b{re.escape(pattern)}\b', s, re.IGNORECASE) finds a match
ReSearchWord(pattern, s) ==
  \E k \in 0..(Len(s) - Len(pattern)) :
    /\ LowerStr(SubSeq(s, k + 1, k + Len(pattern))) = LowerStr(pattern)
    /\ WordBoundary(s, k)
    /\ WordBoundary(s, k + Len(pattern))

\* AnyPatternFound with the break taken after the first pattern, found or not
FirstPatternFound(patterns, text_lower) ==
  patterns # <<>> /\ ReSearchWord(Head(patterns), text_lower)

\* the loop over variation_data["patterns"], left at the first pattern found
RECURSIVE AnyPatternFound(_, _)
AnyPatternFound(patterns, text_lower) ==
  IF patterns = <<>> THEN FALSE
  ELSE IF ReSearchWord(Head(patterns), text_lower) THEN TRUE
  ELSE AnyPatternFound(Tail(patterns), text_lower)

\* matches[attribute] after the loop over the attribute's variations
RECURSIVE MatchedVariations(_, _)
MatchedVariations(variations, text_lower) ==
  IF variations = <<>> THEN <<>>
  ELSE (IF AnyPatternFound(Head(variations).patterns, text_lower)
          THEN <<Head(variations).variation>>
          ELSE <<>>)
       \o MatchedVariations(Tail(variations), text_lower)

\* "/".join(sorted(set(v)))
Joined(v) == Join(<<"/">>, Sorted(Range(v)))

\* config is a dict: a function from the attribute names to the lists of
\* [variation, patterns]; the dict returned holds the attributes with a match
find_matches(text, config) ==
  IF ~IsStr(text) \/ text.s = <<>> \/ DOMAIN config = {} THEN <<>>
  ELSE LET text_lower == LowerStr(text.s)
           matches == [a \in DOMAIN config |->
                         MatchedVariations(config[a], text_lower)]
       IN [k \in {a \in DOMAIN config : matches[a] # <<>>} |-> Joined(matches[k])]

(***************************************************************************)
(* The frequency table: Counter(...).most_common()                         *)
(***************************************************************************)
\* Series.dropna(): the cells that are neither None nor NaN
RECURSIVE dropna(_)
dropna(cells) ==
  IF cells = <<>> THEN <<>>
  ELSE (IF IsNa(Head(cells)) THEN <<>> ELSE <<Head(cells)>>)
       \o dropna(Tail(cells))

\* CountWord that never increments the count of a key it holds
CountOnce(counter, word) ==
  IF \E i \in DOMAIN counter : counter[i].word = word
    THEN counter
    ELSE Append(counter, [word |-> word, count |-> 1])

\* one more occurrence of word in a Counter: a new key goes to the end
CountWord(counter, word) ==
  IF \E i \in DOMAIN counter : counter[i].word = word
    THEN [i \in DOMAIN counter |->
            IF counter[i].word = word
              THEN [counter[i] EXCEPT !.count = @ + 1]
              ELSE counter[i]]
    ELSE Append(counter, [word |-> word, count |-> 1])

\* Counter(words): the keys in the order they were first met
RECURSIVE Counter(_)
Counter(words) ==
  IF words = <<>> THEN <<>>
  ELSE CountWord(Counter(SubSeq(words, 1, Len(words) - 1)), words[Len(words)])

\* InsertByCount with the item put before the items of its own count
InsertBeforeTies(items, item) ==
  LET n == Cardinality({i \in DOMAIN items : items[i].count > item.count})
  IN SubSeq(items, 1, n) \o <<item>> \o Drop(items, n)

\* sorted(..., key=itemgetter(1), reverse=True) is stable: an item goes
\* behind every item whose count is not smaller
InsertByCount(items, item) ==
  LET n == Cardinality({i \in DOMAIN items : items[i].count >= item.count})
  IN SubSeq(items, 1, n) \o <<item>> \o Drop(items, n)

RECURSIVE SortedByCount(_)
SortedByCount(items) ==
  IF items = <<>> THEN <<>>
  ELSE InsertByCount(SortedByCount(SubSeq(items, 1, Len(items) - 1)),
                     items[Len(items)])

\* Counter(words).most_common()
most_common(words) == SortedByCount(Counter(words))

\* main.py line 321: Counter(df['Primeira Palavra'].dropna()).most_common()
WordCounts(column) == most_common(dropna(column))

\* app.py analyze_first_words: the rows that add a word are counted
analyze_first_words(descriptions, stopwords) ==
  most_common(dropna([i \in DOMAIN descriptions |->
                        app_row_word(descriptions[i], stopwords)]))

(***************************************************************************)
(* main.py: the loaders of the configuration files                         *)
(*                                                                         *)
(* An uploader holds [file, rows]: file is "none" (nothing uploaded),      *)
(* "bad" (pd.read_excel raises, or a column the loader indexes is          *)
(* missing) or "good", with the rows pd.read_excel returns.                *)
(***************************************************************************)
NoFile == [file |-> "none", rows |-> <<>>]

BadFile == [file |-> "bad", rows |-> <<>>]

GoodFile(rows) == [file |-> "good", rows |-> rows]

\* [p.strip().lower() for p in str(row[...]).split(",")]
PatternsOf(cell) ==
  LET parts == SplitOn(PyStr(cell), ",")
  IN [i \in DOMAIN parts |-> LowerStr(Strip(parts[i]))]

\* the rows with all three cells filled
RECURSIVE ConfigRows(_)
ConfigRows(rows) ==
  IF rows = <<>> THEN <<>>
  ELSE (IF ~IsNa(Head(rows).Atributo) /\ ~IsNa(Head(rows).Variacoes)
           /\ ~IsNa(Head(rows).Padroes)
          THEN <<Head(rows)>>
          ELSE <<>>)
       \o ConfigRows(Tail(rows))

\* config_dict[attribute]: one entry per row of the attribute, in row order
RECURSIVE VariationsOf(_, _)
VariationsOf(rows, attribute) ==
  IF rows = <<>> THEN <<>>
  ELSE (IF Head(rows).Atributo.s = attribute
          THEN <<[variation |-> Head(rows).Variacoes.s,
                  patterns |-> PatternsOf(Head(rows).Padroes)]>>
          ELSE <<>>)
       \o VariationsOf(Tail(rows), attribute)

\* load_config: [loaded |-> FALSE] stands for the None returned after st.error
load_config(upload) ==
  IF upload.file = "bad" THEN [loaded |-> FALSE, dict |-> <<>>]
  ELSE LET rows == ConfigRows(upload.rows)
       IN [loaded |-> TRUE,
           dict |-> [a \in {rows[i].Atributo.s : i \in DOMAIN rows} |->
                       VariationsOf(rows, a)]]

\* load_categories: dict(zip(Palavra.str.lower(), Categoria)), a later row of
\* the same word replacing an earlier one
load_categories(upload) ==
  IF upload.file = "bad" THEN [loaded |-> FALSE, dict |-> <<>>]
  ELSE LET rows == upload.rows
           keys == {LowerStr(rows[i].Palavra.s) : i \in DOMAIN rows}
           last(k) == CHOOSE i \in DOMAIN rows :
                        /\ LowerStr(rows[i].Palavra.s) = k
                        /\ \A j \in DOMAIN rows :
                             LowerStr(rows[j].Palavra.s) = k => j <= i
       IN [loaded |-> TRUE, dict |-> [k \in keys |-> rows[last(k)].Categoria]]

\* load_ignore_words: the cells of the column, stripped and lowercased, the
\* empty ones left out
load_ignore_words(upload) ==
  IF upload.file = "bad" THEN [loaded |-> FALSE, set |-> {}]
  ELSE [loaded |-> TRUE,
        set |-> {LowerStr(Strip(PyStr(upload.rows[i]))) : i \in
                   {j \in DOMAIN upload.rows : Strip(PyStr(upload.rows[j])) # <<>>}}]

(***************************************************************************)
(* main.py: one run of the script main()                                   *)
(*                                                                         *)
(* session.present says whether 'custom_stopwords' is in st.session_state  *)
(* and session.words is the set it holds.                                  *)
(***************************************************************************)
Absent == [present |-> FALSE, words |-> {}]

Present(words) == [present |-> TRUE, words |-> words]

\* lines 239-242: the button "Adicionar" with new_stopword typed
Add(session, new_stopword) ==
  IF new_stopword = <<>> THEN session
  ELSE Present(session.words \cup {LowerStr(Strip(new_stopword))})

\* lines 246-248: the button "Limpar adições manuais"
Clear(session) == Absent

\* line 293: the stopword set the run passes to extract_first_word
CurrentStopwords(session) == DEFAULT_STOPWORDS

\* lines 259-262: the ignore phrases of the run; [ok |-> FALSE] is the
\* AttributeError of None.update(...)
IgnorePhrases(session, upload) ==
  LET loaded == IF upload.file = "none"
                  THEN [loaded |-> TRUE, set |-> {}]
                  ELSE load_ignore_words(upload)
  IN IF ~session.present THEN [ok |-> TRUE, none |-> ~loaded.loaded, set |-> loaded.set]
     ELSE IF ~loaded.loaded THEN [ok |-> FALSE, none |-> TRUE, set |-> {}]
     ELSE [ok |-> TRUE, none |-> FALSE, set |-> loaded.set \cup session.words]

\* categories.get(str(x).lower()) if pd.notna(x) else None
CategoryOf(word, categories) ==
  IF IsNa(word) THEN None
  ELSE IF LowerStr(PyStr(word)) \in DOMAIN categories
    THEN categories[LowerStr(PyStr(word))]
    ELSE None

\* matches.apply(lambda x: x.get(attribute, None))
AttributeOf(found, attribute) ==
  IF attribute \in DOMAIN found THEN Str(found[attribute]) ELSE None

NoOutput ==
  [stopwords |-> {}, ignore_phrases |-> {}, primeira_palavra |-> <<>>,
   categoria |-> <<>>, attributes |-> <<>>, word_counts |-> <<>>]

\* What one run of the script leaves on the page.  status: "crash" when the
\* run ends in the uncaught AttributeError of line 262, "no_file" when no
\* description file is uploaded, "error" when the try block of lines 282-371
\* catches an exception, "ok" when the tables are shown.  errors: the loaders
\* that called st.error.
Script(session, config_upload, categories_upload, ignore_upload, descriptions) ==
  LET config == IF config_upload.file = "none"
                  THEN [loaded |-> FALSE, dict |-> <<>>]
                  ELSE load_config(config_upload)
      categories == IF categories_upload.file = "none"
                      THEN [loaded |-> FALSE, dict |-> <<>>]
                      ELSE load_categories(categories_upload)
      phrases == IgnorePhrases(session, ignore_upload)
      errors == {u \in {"config", "categories", "ignore_words"} :
                   \/ u = "config" /\ config_upload.file = "bad"
                   \/ u = "categories" /\ categories_upload.file = "bad"
                   \/ u = "ignore_words" /\ ignore_upload.file = "bad"}
      current_stopwords == CurrentStopwords(session)
      rows == descriptions.rows
      primeira_palavra ==
        [i \in DOMAIN rows |->
           extract_first_word(rows[i], current_stopwords, phrases.set)]
      found == [i \in DOMAIN rows |-> find_matches(rows[i], config.dict)]
  IN IF ~phrases.ok
       THEN [status |-> "crash", errors |-> errors, out |-> NoOutput]
     ELSE IF descriptions.file = "none"
       THEN [status |-> "no_file", errors |-> errors, out |-> NoOutput]
     ELSE IF \E i \in DOMAIN rows : IsRaised(primeira_palavra[i])
       THEN [status |-> "error", errors |-> errors, out |-> NoOutput]
     ELSE [status |-> "ok", errors |-> errors,
           out |-> [stopwords |-> current_stopwords,
                    ignore_phrases |-> phrases.set,
                    primeira_palavra |-> primeira_palavra,
                    categoria |->
                      IF DOMAIN categories.dict = {} THEN <<>>
                      ELSE [i \in DOMAIN rows |->
                              CategoryOf(primeira_palavra[i], categories.dict)],
                    attributes |->
                      [a \in DOMAIN config.dict |->
                         [i \in DOMAIN rows |-> AttributeOf(found[i], a)]],
                    word_counts |->
                      IF rows = <<>> THEN <<>> ELSE WordCounts(primeira_palavra)]]

(***************************************************************************)
(* app.py: one run of the script main()                                    *)
(***************************************************************************)
\* lines 156-161: the button "Adicionar"; the set is created even when
\* nothing is typed
AppAdd(session, new_stopword) ==
  IF new_stopword = <<>> THEN Present(session.words)
  ELSE Present(session.words \cup {LowerStr(new_stopword)})

\* lines 171-174: the button "Limpar palavras adicionadas"
AppClear(session) == Absent

\* lines 215-217
AppCurrentStopwords(session) == DEFAULT_STOPWORDS \cup session.words

\* lines 202-226: status "empty" is the warning before st.stop()
AppScript(session, descriptions) ==
  LET current_stopwords == AppCurrentStopwords(session)
      first_words == analyze_first_words(descriptions.rows, current_stopwords)
  IN IF descriptions.file = "none"
       THEN [status |-> "no_file", stopwords |-> {}, first_words |-> <<>>]
     ELSE IF first_words = <<>>
       THEN [status |-> "empty", stopwords |-> current_stopwords,
             first_words |-> <<>>]
     ELSE [status |-> "ok", stopwords |-> current_stopwords,
           first_words |-> first_words]

(***************************************************************************)
(* The module-level DEFAULT_STOPWORDS as the process holds it: one set     *)
(* object every session of the server reads.  A run is given the set the   *)
(* module holds and leaves [module, current]: the set the module holds     *)
(* after the statements, and the run's own current_stopwords.              *)
(***************************************************************************)
\* main.py line 293: current_stopwords = DEFAULT_STOPWORDS.copy()
StopwordsOfRun(default_stopwords, session) ==
  [module |-> default_stopwords, current |-> default_stopwords]

\* AppStopwordsOfRun without .copy(): update() writes into the module's set
AppStopwordsAliased(default_stopwords, session) ==
  [module |-> default_stopwords \cup session.words,
   current |-> default_stopwords \cup session.words]

\* app.py lines 165-167 and 215-217: a copy of DEFAULT_STOPWORDS, updated
\* with the session's custom_stopwords
AppStopwordsOfRun(default_stopwords, session) ==
  [module |-> default_stopwords,
   current |-> default_stopwords \cup session.words]

(***************************************************************************)
(* State                                                                   *)
(*                                                                         *)
(* Four specifications share the module.  Spec is a user session: every    *)
(* event (a button, an upload) triggers one run of the script, and both    *)
(* variants are driven by the same events.  SpecFn, SpecMatch and SpecAgg  *)
(* apply extract_first_word, find_matches and the frequency table to       *)
(* inputs drawn from bounded sets.                                         *)
(***************************************************************************)
VARIABLES
  \* Spec: st.session_state and the uploaders of main.py, and the page
  session, config_uploader, categories_uploader, ignore_words_uploader,
  uploaded_file, page,
  \* Spec: st.session_state of app.py, and its page
  app_session, app_page,
  \* SpecFn
  text, stopwords, ignore_phrases, first_word, again, app_word, fn_pc,
  \* SpecMatch
  m_text, m_config, matches, reordered, m_pc,
  \* SpecAgg
  descriptions, column, word_counts, app_counts, agg_pc,
  \* SpecServer: the DEFAULT_STOPWORDS of the two processes, the sessions
  \* connected to them, and the analysis run last
  module_stopwords, server_sessions, last_run

session_vars ==
  <<session, config_uploader, categories_uploader, ignore_words_uploader,
    uploaded_file, page, app_session, app_page>>

fn_vars == <<text, stopwords, ignore_phrases, first_word, again, app_word, fn_pc>>

match_vars == <<m_text, m_config, matches, reordered, m_pc>>

agg_vars == <<descriptions, column, word_counts, app_counts, agg_pc>>

server_vars == <<module_stopwords, server_sessions, last_run>>

vars == <<session_vars, fn_vars, match_vars, agg_vars, server_vars>>

SessionIdle ==
  /\ session = Absent
  /\ config_uploader = NoFile
  /\ categories_uploader = NoFile
  /\ ignore_words_uploader = NoFile
  /\ uploaded_file = NoFile
  /\ page = Script(Absent, NoFile, NoFile, NoFile, NoFile)
  /\ app_session = Absent
  /\ app_page = AppScript(Absent, NoFile)

FnIdle ==
  /\ text = None
  /\ stopwords = {}
  /\ ignore_phrases = {}
  /\ first_word = None
  /\ again = None
  /\ app_word = None
  /\ fn_pc = "idle"

MatchIdle ==
  /\ m_text = None
  /\ m_config = <<>>
  /\ matches = <<>>
  /\ reordered = <<>>
  /\ m_pc = "idle"

AggIdle ==
  /\ descriptions = <<>>
  /\ column = <<>>
  /\ word_counts = <<>>
  /\ app_counts = <<>>
  /\ agg_pc = "idle"

NoRun ==
  [ran |-> FALSE, id |-> 0, text |-> None, stopwords |-> {},
   ignore_phrases |-> {}, first_word |-> None, app_stopwords |-> {},
   app_word |-> None]

ServerIdle ==
  /\ module_stopwords = [main |-> DEFAULT_STOPWORDS, app |-> DEFAULT_STOPWORDS]
  /\ server_sessions = <<>>
  /\ last_run = NoRun

(***************************************************************************)
(* Spec: the session                                                       *)
(***************************************************************************)
\* what the user types into "Digite uma palavra ou frase para ignorar"
NewStopwordInputs == {<<>>, <<" ">>, <<"C", "o", "t", "a", " ">>}

DescParafuso == Str(<<"P", "a", "r", "a", "f", "u", "s", "o", " ", "1", "1", "0", "v", " ", "s", "e", "x", "t", "a", "v", "a", "d", "o">>)

DescCota == Str(<<"c", "o", "t", "a", " ", "p", "a", "r", "a", "f", "u", "s", "o", " ", "2", "2", "0", " ", "v">>)

DescDeFerro == Str(<<"d", "e", " ", "f", "e", "r", "r", "o">>)

DescArroz == Str(<<"a", "m", "p", "l", "a", " ", "c", "o", "n", "c", "o", "r", "r", "ê", "n", "c", "i", "a", " ", "A", "r", "r", "o", "z", " ", "t", "i", "p", "o", " ", "1">>)

DescEntao == Str(<<"e", " ", "e", "n", "t", "ã", "o">>)

DescDashes == Str(<<"-", "-", "-">>)

\* the description files: the cells of the column 'Descrição'
DescriptionFiles ==
  { GoodFile(<<DescParafuso>>),
    GoodFile(<<DescCota, DescDeFerro, DescParafuso>>),
    GoodFile(<<DescArroz, DescEntao, NaN>>),
    GoodFile(<<DescDashes, DescParafuso>>) }

Voltagem == <<"V", "o", "l", "t", "a", "g", "e", "m">>

Row110 ==
  [Atributo |-> Str(Voltagem), Variacoes |-> Str(<<"1", "1", "0", "v">>),
   Padroes |-> Str(<<"1", "1", "0", "v", ",", "1", "1", "0", " ", "v">>)]

Row220 ==
  [Atributo |-> Str(Voltagem), Variacoes |-> Str(<<"2", "2", "0", "v">>),
   Padroes |-> Str(<<"2", "2", "0", "v", ",", " ", "2", "2", "0", " ", "V">>)]

RowBlank == [Atributo |-> Str(<<"C", "o", "r">>), Variacoes |-> NaN, Padroes |-> NaN]

ConfigFiles == {GoodFile(<<Row110>>), GoodFile(<<Row220, RowBlank, Row110>>)}

CategoryFiles ==
  { GoodFile(<<[Palavra |-> Str(<<"P", "a", "r", "a", "f", "u", "s", "o">>), Categoria |-> Str(<<"F", "e", "r", "r", "a", "m", "e", "n", "t", "a", "s">>)],
               [Palavra |-> Str(<<"A", "r", "r", "o", "z">>), Categoria |-> Str(<<"A", "l", "i", "m", "e", "n", "t", "o", "s">>)]>>) }

IgnoreWordFiles == {GoodFile(<<Str(<<"c", "o", "t", "a">>), Str(<<" ", "A", "m", "p", "l", "a", " ", "c", "o", "n", "c", "o", "r", "r", "ê", "n", "c", "i", "a">>)>>)}

Init ==
  /\ SessionIdle
  /\ FnIdle
  /\ MatchIdle
  /\ AggIdle
  /\ ServerIdle

\* every event ends with a run of both scripts on the state it leaves
Rerun ==
  /\ page' = Script(session', config_uploader', categories_uploader',
                    ignore_words_uploader', uploaded_file')
  /\ app_page' = AppScript(app_session', uploaded_file')

ClickAdd ==
  \E new_stopword \in NewStopwordInputs :
    /\ session' = Add(session, new_stopword)
    /\ app_session' = AppAdd(app_session, new_stopword)
    /\ UNCHANGED <<config_uploader, categories_uploader, ignore_words_uploader,
                   uploaded_file>>
    /\ Rerun
    /\ UNCHANGED <<fn_vars, match_vars, agg_vars, server_vars>>

ClickClear ==
  /\ session' = Clear(session)
  /\ app_session' = AppClear(app_session)
  /\ UNCHANGED <<config_uploader, categories_uploader, ignore_words_uploader,
                 uploaded_file>>
  /\ Rerun
  /\ UNCHANGED <<fn_vars, match_vars, agg_vars, server_vars>>

UploadConfig ==
  \E f \in ConfigFiles \cup {NoFile, BadFile} :
    /\ config_uploader' = f
    /\ UNCHANGED <<session, app_session, categories_uploader,
                   ignore_words_uploader, uploaded_file>>
    /\ Rerun
    /\ UNCHANGED <<fn_vars, match_vars, agg_vars, server_vars>>

UploadCategories ==
  \E f \in CategoryFiles \cup {NoFile, BadFile} :
    /\ categories_uploader' = f
    /\ UNCHANGED <<session, app_session, config_uploader,
                   ignore_words_uploader, uploaded_file>>
    /\ Rerun
    /\ UNCHANGED <<fn_vars, match_vars, agg_vars, server_vars>>

UploadIgnoreWords ==
  \E f \in IgnoreWordFiles \cup {NoFile, BadFile} :
    /\ ignore_words_uploader' = f
    /\ UNCHANGED <<session, app_session, config_uploader, categories_uploader,
                   uploaded_file>>
    /\ Rerun
    /\ UNCHANGED <<fn_vars, match_vars, agg_vars, server_vars>>

UploadFile ==
  \E f \in DescriptionFiles \cup {NoFile} :
    /\ uploaded_file' = f
    /\ UNCHANGED <<session, app_session, config_uploader, categories_uploader,
                   ignore_words_uploader>>
    /\ Rerun
    /\ UNCHANGED <<fn_vars, match_vars, agg_vars, server_vars>>

Next ==
  \/ ClickAdd
  \/ ClickClear
  \/ UploadConfig
  \/ UploadCategories
  \/ UploadIgnoreWords
  \/ UploadFile

Spec == Init /\ [][Next]_vars

(***************************************************************************)
(* SpecFn: the extraction functions on bounded inputs                      *)
(***************************************************************************)
MaxFragments == 4

Fragments == {<<"-">>, <<" ">>, <<"d">>, <<"D">>, <<"a", "s">>}

RECURSIVE Concat(_)
Concat(fs) == IF fs = <<>> THEN <<>> ELSE Head(fs) \o Concat(Tail(fs))

Texts == {Concat(fs) : fs \in UNION {[1..n -> Fragments] : n \in 0..MaxFragments}}

PhraseUniverse == {<<>>, <<"d">>, <<"d", "a", "s">>}

FnInit ==
  /\ text \in {Str(t) : t \in Texts} \cup {NaN, None, Number}
  /\ stopwords \in {{}, DEFAULT_STOPWORDS}
  /\ ignore_phrases \in SUBSET PhraseUniverse
  /\ first_word = None
  /\ again = None
  /\ app_word = None
  /\ fn_pc = "input"
  /\ SessionIdle
  /\ MatchIdle
  /\ AggIdle
  /\ ServerIdle

\* main.py: the lambda of df['Descrição'].apply on one cell
Extract ==
  /\ fn_pc = "input"
  /\ \E iteration \in IterationOrders(ignore_phrases) :
       first_word' = extract_first_word_in_order(text, stopwords, iteration)
  /\ fn_pc' = "extracted"
  /\ UNCHANGED <<text, stopwords, ignore_phrases, again, app_word>>
  /\ UNCHANGED <<session_vars, match_vars, agg_vars, server_vars>>

\* extraction run once more, on the word it returned
ExtractAgain ==
  /\ fn_pc = "extracted"
  /\ IsStr(first_word)
  /\ \E iteration \in IterationOrders(ignore_phrases) :
       again' = extract_first_word_in_order(first_word, stopwords, iteration)
  /\ fn_pc' = "again"
  /\ UNCHANGED <<text, stopwords, ignore_phrases, first_word, app_word>>
  /\ UNCHANGED <<session_vars, match_vars, agg_vars, server_vars>>

\* app.py: one iteration of the loop of analyze_first_words
ExtractApp ==
  /\ fn_pc = "input"
  /\ app_word' = app_row_word(text, stopwords)
  /\ fn_pc' = "app"
  /\ UNCHANGED <<text, stopwords, ignore_phrases, first_word, again>>
  /\ UNCHANGED <<session_vars, match_vars, agg_vars, server_vars>>

FnNext ==
  \/ Extract
  \/ ExtractAgain
  \/ ExtractApp

SpecFn == FnInit /\ [][FnNext]_vars

(***************************************************************************)
(* SpecMatch: find_matches on bounded inputs                               *)
(***************************************************************************)
MaxMatchLen == 3

MatchChars == {"1", "v", "V", " "}

MatchTexts == UNION {[1..n -> MatchChars] : n \in 0..MaxMatchLen}

Label110 == <<"1", "1", "0", "v">>

Label220 == <<"2", "2", "0", "v">>

PatternLists ==
  { << <<"1", "v">> >>,
    << <<"1", " ", "v">>, <<"1", "v">> >>,
    << <<"v">>, <<"1", " ", "v">> >> }

VariationUniverse ==
  {[variation |-> l, patterns |-> ps] : l \in {Label110, Label220}, ps \in PatternLists}

VariationLists ==
  {<<a>> : a \in VariationUniverse}
    \cup {<<a, b>> : a \in VariationUniverse, b \in VariationUniverse}

Fase == <<"F", "a", "s", "e">>

FaseVariations == <<[variation |-> <<"m", "o", "n", "o">>, patterns |-> << <<"1">> >>]>>

\* the dicts load_config can return: empty, one attribute, two attributes
MatchConfigs ==
  {<<>>}
    \cup {[a \in {Voltagem} |-> vs] : vs \in VariationLists}
    \cup {[a \in {Voltagem, Fase} |-> IF a = Voltagem THEN vs ELSE FaseVariations] :
            vs \in VariationLists}

Orderings(seq) ==
  {[i \in DOMAIN seq |-> seq[f[i]]] :
     f \in {g \in [DOMAIN seq -> DOMAIN seq] :
              \A i, j \in DOMAIN seq : g[i] = g[j] => i = j}}

\* the variation lists that differ from vs only in the order of the patterns
\* inside each variation
ReorderedVariations(vs) ==
  {l \in [DOMAIN vs -> UNION {{[variation |-> vs[i].variation, patterns |-> q] :
                                 q \in Orderings(vs[i].patterns)} : i \in DOMAIN vs}] :
     \A i \in DOMAIN vs :
       /\ l[i].variation = vs[i].variation
       /\ l[i].patterns \in Orderings(vs[i].patterns)}

Reorderings(config) ==
  {c \in [DOMAIN config -> UNION {ReorderedVariations(config[a]) : a \in DOMAIN config}] :
     \A a \in DOMAIN config : c[a] \in ReorderedVariations(config[a])}

MatchInit ==
  /\ m_text \in {Str(t) : t \in MatchTexts} \cup {NaN}
  /\ m_config \in MatchConfigs
  /\ matches = <<>>
  /\ reordered = <<>>
  /\ m_pc = "input"
  /\ SessionIdle
  /\ FnIdle
  /\ AggIdle
  /\ ServerIdle

\* the lambda of df['Descrição'].apply(lambda x: find_matches(x, config))
FindMatches ==
  /\ m_pc = "input"
  /\ matches' = find_matches(m_text, m_config)
  /\ m_pc' = "matched"
  /\ UNCHANGED <<m_text, m_config, reordered>>
  /\ UNCHANGED <<session_vars, fn_vars, agg_vars, server_vars>>

\* the same text against the configuration with its patterns reordered
FindMatchesReordered ==
  /\ m_pc = "matched"
  /\ \E c \in Reorderings(m_config) : reordered' = find_matches(m_text, c)
  /\ m_pc' = "reordered"
  /\ UNCHANGED <<m_text, m_config, matches>>
  /\ UNCHANGED <<session_vars, fn_vars, agg_vars, server_vars>>

MatchNext ==
  \/ FindMatches
  \/ FindMatchesReordered

SpecMatch == MatchInit /\ [][MatchNext]_vars

(***************************************************************************)
(* SpecAgg: the frequency tables of both variants on bounded columns       *)
(***************************************************************************)
MaxRows == 4

AggCells ==
  { Str(<<"c", "a", "b", "o">>), Str(<<"C", "a", "b", "o", " ", "2", "m">>), Str(<<"f", "i", "o">>), Str(<<"d", "e", " ", "c", "a", "b", "o">>), NaN }

AggInit ==
  /\ descriptions \in UNION {[1..n -> AggCells] : n \in 0..MaxRows}
  /\ column = <<>>
  /\ word_counts = <<>>
  /\ app_counts = <<>>
  /\ agg_pc = "input"
  /\ SessionIdle
  /\ FnIdle
  /\ MatchIdle
  /\ ServerIdle

\* main.py lines 296-298 and 319-321 with the default stopwords and no phrases
Analyze ==
  /\ agg_pc = "input"
  /\ column' = [i \in DOMAIN descriptions |->
                  extract_first_word(descriptions[i], DEFAULT_STOPWORDS, {})]
  /\ word_counts' = IF descriptions = <<>> THEN <<>> ELSE WordCounts(column')
  /\ agg_pc' = "main"
  /\ UNCHANGED <<descriptions, app_counts>>
  /\ UNCHANGED <<session_vars, fn_vars, match_vars, server_vars>>

\* app.py line 220
AnalyzeApp ==
  /\ agg_pc = "input"
  /\ app_counts' = analyze_first_words(descriptions, DEFAULT_STOPWORDS)
  /\ agg_pc' = "app"
  /\ UNCHANGED <<descriptions, column, word_counts>>
  /\ UNCHANGED <<session_vars, fn_vars, match_vars, server_vars>>

AggNext ==
  \/ Analyze
  \/ AnalyzeApp

SpecAgg == AggInit /\ [][AggNext]_vars

(***************************************************************************)
(* SpecServer: several sessions on one server.  Each script is one Python  *)
(* process: its module-level DEFAULT_STOPWORDS is one object for all the   *)
(* sessions, st.session_state is per session.  Every event of a session    *)
(* reruns both scripts for that session.                                   *)
(***************************************************************************)
MaxSessions == 2

SessionIds == 1..MaxSessions

NewSession == [custom |-> Absent, app_custom |-> Absent, uploaded |-> NoFile]

\* what the users type into the field of the button "Adicionar"
ServerStopwordInputs == {<<" ">>, <<"C", "o", "t", "a", " ">>, <<"c", "o">>}

\* the file a session uploads: one description
ServerFiles == {GoodFile(<<DescCota>>)}

ServerInit ==
  /\ module_stopwords = [main |-> DEFAULT_STOPWORDS, app |-> DEFAULT_STOPWORDS]
  /\ server_sessions = [id \in SessionIds |-> NewSession]
  /\ last_run = NoRun
  /\ SessionIdle
  /\ FnIdle
  /\ MatchIdle
  /\ AggIdle

\* The run of both scripts for session id on the state the event leaves.
\* app.py builds all_stopwords in the sidebar on every run; the analysis of
\* either script runs when a file is uploaded.  The set of ignore phrases is
\* one object for the whole run, iterated in an order the run does not choose.
ServerRerun(id) ==
  LET s == server_sessions'[id]
      main_run == IF s.uploaded.file = "none"
                    THEN [module |-> module_stopwords.main, current |-> {}]
                    ELSE StopwordsOfRun(module_stopwords.main, s.custom)
      app_run == AppStopwordsOfRun(module_stopwords.app, s.app_custom)
      phrases == IgnorePhrases(s.custom, NoFile).set
  IN /\ module_stopwords' = [main |-> main_run.module, app |-> app_run.module]
     /\ IF s.uploaded.file = "none"
          THEN last_run' = NoRun
          ELSE \E iteration \in IterationOrders(phrases) :
                 last_run' =
                   [ran |-> TRUE, id |-> id, text |-> s.uploaded.rows[1],
                    stopwords |-> main_run.current,
                    ignore_phrases |-> phrases,
                    first_word |->
                      extract_first_word_in_order(s.uploaded.rows[1],
                                                  main_run.current, iteration),
                    app_stopwords |-> app_run.current,
                    app_word |-> app_row_word(s.uploaded.rows[1], app_run.current)]

ServerAdd ==
  \E id \in SessionIds, new_stopword \in ServerStopwordInputs :
    /\ server_sessions' =
         [server_sessions EXCEPT
            ![id].custom = Add(@, new_stopword),
            ![id].app_custom = AppAdd(@, new_stopword)]
    /\ ServerRerun(id)
    /\ UNCHANGED <<session_vars, fn_vars, match_vars, agg_vars>>

ServerClear ==
  \E id \in SessionIds :
    /\ server_sessions' =
         [server_sessions EXCEPT
            ![id].custom = Clear(@),
            ![id].app_custom = AppClear(@)]
    /\ ServerRerun(id)
    /\ UNCHANGED <<session_vars, fn_vars, match_vars, agg_vars>>

ServerUpload ==
  \E id \in SessionIds, f \in ServerFiles \cup {NoFile} :
    /\ server_sessions' = [server_sessions EXCEPT ![id].uploaded = f]
    /\ ServerRerun(id)
    /\ UNCHANGED <<session_vars, fn_vars, match_vars, agg_vars>>

ServerNext ==
  \/ ServerAdd
  \/ ServerClear
  \/ ServerUpload

SpecServer == ServerInit /\ [][ServerNext]_vars

(***************************************************************************)
(* Claims about the extraction functions, checked under SpecFn             *)
(***************************************************************************)
\* a token extraction may return: at least 3 characters, all of them of the
\* class re.sub keeps, not a stopword, and no ignore phrase starts it
ValidWord(v) ==
  /\ Len(v) >= 3
  /\ \A i \in DOMAIN v : IsAlnumMain(v[i])
  /\ LowerStr(v) \notin stopwords
  /\ MatchingPhrases(v, ignore_phrases) = {}

\* C1: for every stopword w of the stopword set and every valid word v,
\* extract_first_word on the description "w v" returns v.
C1_StopwordSkipped ==
  (fn_pc = "extracted" /\ IsStr(text)) =>
    \A i \in DOMAIN text.s :
      ( /\ text.s[i] = " "
        /\ SubSeq(text.s, 1, i - 1) \in stopwords
        /\ ValidWord(Drop(text.s, i)) )
      => first_word = Str(Drop(text.s, i))

\* C2: extract_first_word never raises: None for a null or non-string
\* input, None or a token for every string.
C2_NeverRaises ==
  fn_pc = "extracted" =>
    /\ ~IsStr(text) => first_word = None
    /\ first_word = None \/ IsStr(first_word)

\* C5: when extraction returns a word r, extraction on r returns r again.
C5_Idempotent ==
  fn_pc = "again" => again = first_word

\* The text left when the stripping of ignore phrases ends, for a text the
\* stripping does end on with something left: the text line 165 works on.
RECURSIVE AfterIgnorePhrases(_, _)
AfterIgnorePhrases(t, phrases) ==
  LET s == Strip(t)
      ns == {Len(p) : p \in MatchingPhrases(s, phrases)}
  IN IF s = <<>> \/ ns = {} \/ ns = {0} THEN s
     ELSE AfterIgnorePhrases(Drop(s, CHOOSE n \in ns : \A m \in ns : m <= n), phrases)

StrippingEnds(t, phrases) ==
  LET s == AfterIgnorePhrases(t, phrases)
  IN s # <<>> /\ MatchingPhrases(s, phrases) = {}

\* the first token of the text the stripping ends on has 1 or 2 characters
ShortFirstToken(t, phrases) ==
  /\ StrippingEnds(t, phrases)
  /\ LET tokens == Split(ReSubMain(AfterIgnorePhrases(t, phrases)))
     IN tokens # <<>> /\ Len(tokens[1]) < 3

FirstToken(cell) == LowerStr(Split(cell.s)[1])

HasToken(cell) == IsStr(cell) /\ Split(cell.s) # <<>>

\* C3: the stopword set a run passes to extraction is DEFAULT_STOPWORDS
\* united with the session's custom_stopwords, and a row whose first token
\* is a user-added word gets no first word, as for a built-in stopword.
C3_CustomWordsAreStopwords ==
  page.status = "ok" =>
    /\ page.out.stopwords = DEFAULT_STOPWORDS \cup session.words
    /\ \A i \in DOMAIN uploaded_file.rows :
         (HasToken(uploaded_file.rows[i])
            /\ FirstToken(uploaded_file.rows[i]) \in session.words)
         => page.out.primeira_palavra[i] = None

AsAbsent(upload) == IF upload.file = "bad" THEN NoFile ELSE upload

\* C4: with a malformed configuration file the loader reports an error and
\* the run goes on as if that file had not been uploaded, whatever
\* custom_stopwords holds: no uncaught exception, the same page.
C4_BadFileTreatedAsAbsent ==
  LET expected == Script(session, AsAbsent(config_uploader),
                         AsAbsent(categories_uploader),
                         AsAbsent(ignore_words_uploader), uploaded_file)
  IN /\ page.status # "crash"
     /\ page.status = expected.status
     /\ page.out = expected.out
     /\ (config_uploader.file = "bad") = ("config" \in page.errors)
     /\ (categories_uploader.file = "bad") = ("categories" \in page.errors)
     /\ (ignore_words_uploader.file = "bad") = ("ignore_words" \in page.errors)

\* the run of the example: the description among the rows, the default
\* stopwords, no ignore phrase, the configuration
\* {Voltagem: [{110v: ["110v", "110 v"]}]}
ExampleRun(i) ==
  /\ page.status = "ok"
  /\ i \in DOMAIN uploaded_file.rows
  /\ uploaded_file.rows[i] = DescParafuso
  /\ page.out.stopwords = DEFAULT_STOPWORDS
  /\ page.out.ignore_phrases = {}
  /\ config_uploader = GoodFile(<<Row110>>)

\* C6 as stated: "Parafuso 110v sextavado" gives first word "parafuso"
\* (lowercase) and Voltagem = "110v".
C6_ExampleLowercase ==
  \A i \in DOMAIN uploaded_file.rows :
    ExampleRun(i) =>
      /\ page.out.primeira_palavra[i] = Str(<<"p", "a", "r", "a", "f", "u", "s", "o">>)
      /\ page.out.attributes[Voltagem][i] = Str(Label110)

\* C6 as amended: main.py gives first word "Parafuso", the case as written,
\* and Voltagem = "110v"; the configuration loaded is the one of the
\* example; app.py, with the default stopwords, counts the word as
\* "parafuso".
C6_ExampleCaseKept ==
  \A i \in DOMAIN uploaded_file.rows :
    ExampleRun(i) =>
      /\ load_config(config_uploader).dict =
           [a \in {Voltagem} |->
              <<[variation |-> Label110,
                 patterns |-> <<Label110, <<"1", "1", "0", " ", "v">>>>]>>]
      /\ page.out.primeira_palavra[i] = Str(<<"P", "a", "r", "a", "f", "u", "s", "o">>)
      /\ page.out.attributes[Voltagem][i] = Str(Label110)
      /\ app_session.words = {} =>
           /\ app_page.status = "ok"
           /\ \E k \in DOMAIN app_page.first_words :
                app_page.first_words[k].word = Str(<<"p", "a", "r", "a", "f", "u", "s", "o">>)

C6_Witness == \E i \in DOMAIN uploaded_file.rows : ExampleRun(i) /\ app_session.words = {}

(***************************************************************************)
(* Claims about find_matches, checked under SpecMatch                      *)
(***************************************************************************)
\* the variation labels of attribute a with a pattern that occurs in the
\* text as a case-insensitive match between word boundaries
LabelsFound(a) ==
  IF ~IsStr(m_text) THEN {}
  ELSE {m_config[a][i].variation : i \in
          {j \in DOMAIN m_config[a] :
             \E p \in Range(m_config[a][j].patterns) : ReSearchWord(p, m_text.s)}}

SameDict(d, e) == DOMAIN d = DOMAIN e /\ \A k \in DOMAIN d : d[k] = e[k]

\* C8: find_matches returns, for each attribute, the '/'-joined, sorted,
\* duplicate-free list of exactly the variation labels with a pattern that
\* occurs in the text (an attribute with none has no entry), and the result
\* is the same when the patterns inside the variations are reordered.
C8_MatchedVariations ==
  /\ m_pc \in {"matched", "reordered"} =>
       /\ DOMAIN matches = {a \in DOMAIN m_config : LabelsFound(a) # {}}
       /\ \A a \in DOMAIN matches :
            LET parts == SplitOn(matches[a], "/")
            IN /\ Range(parts) = LabelsFound(a)
               /\ \A i, j \in DOMAIN parts : i < j => StrLess(parts[i], parts[j])
  /\ m_pc = "reordered" => SameDict(reordered, matches)

\* two variations of one attribute are reported, listed "110v/220v" though
\* configured in the other order, one of them found by its second pattern
\* only, and the reordered configuration has been searched
C8_Witness ==
  /\ m_pc = "reordered"
  /\ Voltagem \in DOMAIN matches
  /\ matches[Voltagem] = <<"1", "1", "0", "v", "/", "2", "2", "0", "v">>
  /\ m_config[Voltagem][1].variation = Label220
  /\ \E i \in DOMAIN m_config[Voltagem] :
       LET ps == m_config[Voltagem][i].patterns
       IN Len(ps) = 2 /\ ~ReSearchWord(ps[1], m_text.s) /\ ReSearchWord(ps[2], m_text.s)

(***************************************************************************)
(* Claims about the frequency tables, checked under SpecAgg                *)
(***************************************************************************)
\* the words app.py appends to first_words, row by row (None: nothing)
AppColumn ==
  [i \in DOMAIN descriptions |-> app_row_word(descriptions[i], DEFAULT_STOPWORDS)]

FirstSeen(word, cells) == CHOOSE i \in DOMAIN cells : cells[i] = word /\ \A j \in 1..(i - 1) : cells[j] # word

\* descending counts, equal counts in the order of first occurrence
OrderedTable(table, cells) ==
  \A i, j \in DOMAIN table :
    i < j =>
      /\ table[i].count >= table[j].count
      /\ table[i].count = table[j].count =>
           FirstSeen(table[i].word, cells) < FirstSeen(table[j].word, cells)

\* C9: the frequency table lists the (word, count) pairs by descending
\* count, and words of equal count in the order they were first met.
C9_DescendingStable ==
  /\ agg_pc = "main" => OrderedTable(word_counts, column)
  /\ agg_pc = "app" => OrderedTable(app_counts, AppColumn)

\* a later word overtakes two earlier ones that tie
C9_Witness ==
  /\ agg_pc = "main"
  /\ Len(word_counts) = 3
  /\ word_counts[1].count > word_counts[2].count
  /\ word_counts[2].count = word_counts[3].count
  /\ FirstSeen(word_counts[2].word, column) < FirstSeen(word_counts[1].word, column)

RECURSIVE SumCounts(_)
SumCounts(table) ==
  IF table = <<>> THEN 0 ELSE Head(table).count + SumCounts(Tail(table))

\* the counts add up to the rows with a word, and every word of the column
\* has exactly one line
CountsRows(table, cells) ==
  /\ SumCounts(table) = Cardinality({i \in DOMAIN cells : ~IsNa(cells[i])})
  /\ \A i \in DOMAIN cells :
       ~IsNa(cells[i]) =>
         Cardinality({k \in DOMAIN table : table[k].word = cells[i]}) = 1

\* C10: the counts of the frequency table sum to the number of rows whose
\* extracted first word is non-null, and every distinct non-null word is in
\* the table exactly once.
C10_CountsSumToRows ==
  /\ agg_pc = "main" => CountsRows(word_counts, column)
  /\ agg_pc = "app" => CountsRows(app_counts, AppColumn)

\* rows without a word beside a word met twice and another word
C10_Witness ==
  /\ agg_pc = "main"
  /\ \E i \in DOMAIN column : IsNa(column[i])
  /\ Len(word_counts) >= 2
  /\ \E k \in DOMAIN word_counts : word_counts[k].count >= 2

(***************************************************************************)
(* Claims about the stripping steps, checked under SpecFn                  *)
(***************************************************************************)
\* C13: at every stripping step the phrase removed from the start of the
\* text is the longest ignore phrase that is a case-insensitive prefix of
\* it, and when the text left after the removal is empty the result is None.
C13_LongestPhraseFirst ==
  (fn_pc = "extracted" /\ IsStr(text)) =>
    \A iteration \in IterationOrders(ignore_phrases) :
      LET steps == StrippingSteps(text.s, iteration)
      IN /\ \A k \in DOMAIN steps :
              /\ steps[k].phrase \in MatchingPhrases(steps[k].stripped, ignore_phrases)
              /\ \A q \in MatchingPhrases(steps[k].stripped, ignore_phrases) :
                   Len(q) <= Len(steps[k].phrase)
         /\ (steps # <<>> /\ steps[Len(steps)].remaining_text = <<>>) =>
              first_word = None

\* two phrases of different lengths are prefixes of a text written with a
\* capital, nothing is left behind the longer one, and the result is None
C13_Witness ==
  /\ fn_pc = "extracted"
  /\ IsStr(text)
  /\ LowerStr(text.s) # text.s
  /\ \E p, q \in MatchingPhrases(Strip(text.s), ignore_phrases) :
       /\ 0 < Len(p)
       /\ Len(p) < Len(q)
       /\ Strip(Drop(Strip(text.s), Len(p))) # <<>>
       /\ Strip(Drop(Strip(text.s), Len(q))) = <<>>
  /\ first_word = None

(***************************************************************************)
(* Claims about the ignore phrases of a session, checked under Spec        *)
(***************************************************************************)
\* every recursive call of the stripping of t is made on a strictly shorter
\* text
RECURSIVE RecursionShrinks(_, _)
RecursionShrinks(t, phrases) ==
  LET s == Strip(t)
      remaining_text == Strip(Drop(s, MatchedLen(s, phrases)))
  IN \/ s = <<>>
     \/ MatchingPhrases(s, phrases) = {}
     \/ remaining_text = <<>>
     \/ Len(remaining_text) < Len(s) /\ RecursionShrinks(remaining_text, phrases)

\* C12: the stripping of ignore phrases terminates for every description
\* and every set of ignore phrases the session can build (the phrases of the
\* uploaded file united with the words added with the button): every
\* recursive call is made on a strictly shorter text.
C12_StrippingTerminates ==
  LET phrases == IgnorePhrases(session, ignore_words_uploader)
      rows == uploaded_file.rows
  IN (uploaded_file.file = "good" /\ phrases.ok) =>
       \A i \in DOMAIN rows :
         IsStr(rows[i]) =>
           /\ RecursionShrinks(rows[i].s, phrases.set)
           /\ extract_first_word(rows[i], CurrentStopwords(session), phrases.set)
                # Raise("RecursionError")

(***************************************************************************)
(* Claims about sessions sharing a server, checked under SpecServer        *)
(***************************************************************************)
\* C11: no sequence of Add, Clear and analysis runs, in one session or
\* interleaved across several, changes the module-level DEFAULT_STOPWORDS;
\* a run works on the default stopwords and on its own session's words
\* only, and extract_first_word returns the same result for the same
\* description, stopword set and ignore-phrase set in whatever order the
\* set of ignore phrases is iterated.
C11_NoHiddenState ==
  /\ module_stopwords.main = DEFAULT_STOPWORDS
  /\ module_stopwords.app = DEFAULT_STOPWORDS
  /\ last_run.ran =>
       /\ last_run.stopwords = DEFAULT_STOPWORDS
       /\ last_run.ignore_phrases = server_sessions[last_run.id].custom.words
       /\ last_run.app_stopwords =
            DEFAULT_STOPWORDS \cup server_sessions[last_run.id].app_custom.words
       /\ \A iteration \in IterationOrders(last_run.ignore_phrases) :
            extract_first_word_in_order(last_run.text, last_run.stopwords,
                                        iteration) = last_run.first_word
       /\ last_run.first_word =
            extract_first_word(last_run.text, last_run.stopwords,
                               last_run.ignore_phrases)
       /\ last_run.app_word = app_row_word(last_run.text, last_run.app_stopwords)

\* a session with two ignore phrases, both a prefix of the description, ran
\* the analysis and got a word, while another session holds other words
C11_Witness ==
  /\ last_run.ran
  /\ Cardinality(MatchingPhrases(last_run.text.s, last_run.ignore_phrases)) >= 2
  /\ IsStr(last_run.first_word)
  /\ \E other \in SessionIds :
       /\ other # last_run.id
       /\ server_sessions[other].custom.present
       /\ server_sessions[other].custom.words # last_run.ignore_phrases
       /\ server_sessions[other].app_custom.words # {}

=============================================================================
